---------------------------- MODULE Spec2Model ----------------------------
(***************************************************************************)
(* Model of react-icons-cli (src/src/main.ts).                             *)
(*                                                                         *)
(* Text is modelled as a sequence of lexemes.  A lexeme is either one      *)
(* character that matters to the regular expression of getIconSvg or to    *)
(* JSON.parse (braces, brackets, parentheses, quote, colon, comma, blank)  *)
(* or a run of characters none of which does (an identifier, a word of an  *)
(* attribute value).  A JavaScript string value is the sequence of the     *)
(* lexemes between its quotes.                                             *)
(***************************************************************************)
EXTENDS Integers, Sequences, FiniteSets, TLC

VARIABLES
    pc,                 \* position of main(): the await it is suspended at
    config,             \* value returned by getConfigs (NoConfig before)
    rootDir,            \* names of the entries of ROOT_DIR
    cwdIsRoot,          \* process.cwd() is ROOT_DIR
    cwdDir,             \* names of the entries of process.cwd() when it is not ROOT_DIR
    tempDir,            \* TEMP_DIR exists (holds the unpacked archive)
    npmPackRuns,        \* number of `npm pack react-icons` executions of this run
    reactIconsFileName, \* value returned by downloadReactIconsPackage
    selectedProject,    \* selectedProject.value
    selectedIcon,       \* selectedIcon.value
    iteration,          \* number of passes of the do/while loop started
    svgHtml,            \* markup rendered by the current getIconSvg call
    jsCode,             \* result of transform in the current getIconSvg call
    outDir,             \* files of <rootPath>/<dir>: name -> content
    failure,            \* how the process ended abnormally
    src,                \* extraction harness: source text
    iconName,           \* extraction harness: icon name
    extracted,          \* extraction harness: result of match + JSON.parse
    roots,              \* rendering harness: sequence of root trees
    markup              \* rendering harness: rendered markup

vars == <<pc, config, rootDir, cwdIsRoot, cwdDir, tempDir, npmPackRuns,
          reactIconsFileName, selectedProject, selectedIcon, iteration,
          svgHtml, jsCode, outDir, failure, src, iconName, extracted,
          roots, markup>>

None == [type |-> "none"]

-----------------------------------------------------------------------------
(* Sequences *)

RECURSIVE Concat(_)
Concat(ss) == IF ss = <<>> THEN <<>> ELSE Head(ss) \o Concat(Tail(ss))

Range(s) == {s[i] : i \in 1..Len(s)}

IsWs(c) == c \in {" ", "\n"}

\* first position >= i of s that holds no white space (Len(s)+1 when none)
RECURSIVE SkipWs(_, _)
SkipWs(s, i) == IF i <= Len(s) /\ IsWs(s[i]) THEN SkipWs(s, i + 1) ELSE i

-----------------------------------------------------------------------------
(* JSON values and JSON.parse *)

JStr(s) == [type |-> "string", s |-> s]
JArr(items) == [type |-> "array", items |-> items]
JObj(members) == [type |-> "object", members |-> members]

SyntaxError == [ok |-> FALSE, val |-> None, pos |-> 0]
Parsed(v, p) == [ok |-> TRUE, val |-> v, pos |-> p]

\* obj[k] = v on a JavaScript object: an existing key keeps its place
PutMember(ms, k, v) ==
    IF \E i \in 1..Len(ms) : ms[i].k = k
    THEN [i \in 1..Len(ms) |-> IF ms[i].k = k THEN [k |-> k, v |-> v] ELSE ms[i]]
    ELSE Append(ms, [k |-> k, v |-> v])

HasMember(o, k) == o.type = "object" /\ \E i \in 1..Len(o.members) : o.members[i].k = k
Member(o, k) == o.members[CHOOSE i \in 1..Len(o.members) : o.members[i].k = k].v

\* a string literal starting at the quote s[i]
ParseString(s, i) ==
    LET ends == {j \in (i + 1)..Len(s) : s[j] = "\""}
    IN  IF ends = {} THEN SyntaxError
        ELSE LET j == CHOOSE e \in ends : \A f \in ends : e <= f
             IN  Parsed(JStr(SubSeq(s, i + 1, j - 1)), j + 1)

RECURSIVE ParseValue(_, _), ParseMembers(_, _, _), ParseItems(_, _, _)

ParseValue(s, i0) ==
    LET i == SkipWs(s, i0)
    IN  IF i > Len(s) THEN SyntaxError
        ELSE IF s[i] = "\"" THEN ParseString(s, i)
        ELSE IF s[i] = "{" THEN
            LET j == SkipWs(s, i + 1)
            IN  IF j <= Len(s) /\ s[j] = "}" THEN Parsed(JObj(<<>>), j + 1)
                ELSE ParseMembers(s, j, <<>>)
        ELSE IF s[i] = "[" THEN
            LET j == SkipWs(s, i + 1)
            IN  IF j <= Len(s) /\ s[j] = "]" THEN Parsed(JArr(<<>>), j + 1)
                ELSE ParseItems(s, j, <<>>)
        ELSE SyntaxError

\* members of an object from position i0 on, after "{" or ","
ParseMembers(s, i0, acc) ==
    LET i == SkipWs(s, i0)
    IN  IF i > Len(s) \/ s[i] # "\"" THEN SyntaxError
        ELSE LET key == ParseString(s, i)
                 c == SkipWs(s, key.pos)
             IN  IF ~key.ok \/ c > Len(s) \/ s[c] # ":" THEN SyntaxError
                 ELSE LET v == ParseValue(s, c + 1)
                          n == SkipWs(s, v.pos)
                          acc1 == PutMember(acc, key.val.s, v.val)
                      IN  IF ~v.ok \/ n > Len(s) THEN SyntaxError
                          ELSE IF s[n] = "," THEN ParseMembers(s, n + 1, acc1)
                          ELSE IF s[n] = "}" THEN Parsed(JObj(acc1), n + 1)
                          ELSE SyntaxError

\* items of an array from position i0 on, after "[" or ","
ParseItems(s, i0, acc) ==
    LET v == ParseValue(s, i0)
        n == SkipWs(s, v.pos)
    IN  IF ~v.ok \/ n > Len(s) THEN SyntaxError
        ELSE IF s[n] = "," THEN ParseItems(s, n + 1, Append(acc, v.val))
        ELSE IF s[n] = "]" THEN Parsed(JArr(Append(acc, v.val)), n + 1)
        ELSE SyntaxError

\* JSON.parse(text): the value, or a SyntaxError (ok = FALSE)
JSONparse(s) ==
    LET r == ParseValue(s, 1)
    IN  IF r.ok /\ SkipWs(s, r.pos) > Len(s) THEN r ELSE SyntaxError

-----------------------------------------------------------------------------
(* TIconTree *)

Tree(tag, attr, child) == [tag |-> tag, attr |-> attr, child |-> child]

\* what tree2Element and React accept of a parsed literal: a string tag, an attr
\* that is absent or an object of strings ({ ...undefined } spreads nothing), a
\* child that is absent (`tree && ...`) or an array of such nodes
RECURSIVE IsRenderable(_)
IsRenderable(v) ==
    /\ v.type = "object"
    /\ HasMember(v, <<"tag">>) /\ Member(v, <<"tag">>).type = "string"
    /\ HasMember(v, <<"attr">>) =>
          /\ Member(v, <<"attr">>).type = "object"
          /\ \A i \in 1..Len(Member(v, <<"attr">>).members) :
                Member(v, <<"attr">>).members[i].v.type = "string"
    /\ HasMember(v, <<"child">>) =>
          /\ Member(v, <<"child">>).type = "array"
          /\ \A i \in 1..Len(Member(v, <<"child">>).items) :
                IsRenderable(Member(v, <<"child">>).items[i])

\* `JSON.parse(...) as TIconTree`: the fields tree2Element reads
RECURSIVE AsTIconTree(_)
AsTIconTree(v) ==
    LET a == IF HasMember(v, <<"attr">>) THEN Member(v, <<"attr">>).members ELSE <<>>
        c == IF HasMember(v, <<"child">>) THEN Member(v, <<"child">>).items ELSE <<>>
    IN  Tree(Member(v, <<"tag">>).s,
             [i \in 1..Len(a) |-> [k |-> a[i].k, v |-> a[i].v.s]],
             [i \in 1..Len(c) |-> AsTIconTree(c[i])])

-----------------------------------------------------------------------------
(* The text of an implementation file  package/<projectId>/index.js *)

Quote(s) == <<"\"">> \o s \o <<"\"">>

RECURSIVE Join(_, _)
Join(ss, sep) ==
    IF ss = <<>> THEN <<>>
    ELSE IF Len(ss) = 1 THEN ss[1]
    ELSE ss[1] \o sep \o Join(Tail(ss), sep)

\* the literal react-icons embeds for a tree:
\* {"tag":"svg","attr":{"viewBox":"0 0 640 512"},"child":[...]}
RECURSIVE Literal(_)
Literal(t) ==
    <<"{">> \o Quote(<<"tag">>) \o <<":">> \o Quote(t.tag) \o <<",">>
      \o Quote(<<"attr">>) \o <<":", "{">>
      \o Join([i \in 1..Len(t.attr) |->
                 Quote(t.attr[i].k) \o <<":">> \o Quote(t.attr[i].v)], <<",">>)
      \o <<"}", ",">>
      \o Quote(<<"child">>) \o <<":", "[">>
      \o Join([i \in 1..Len(t.child) |-> Literal(t.child[i])], <<",">>)
      \o <<"]", "}">>

\* module.exports.<name> = function <name> (props) {
\*   return GenIcon(<literal>)(props);
\* };
Definition(name, literal) ==
    <<"module.exports.", name, " ", "=", " ", "function", " ", name, " ",
      "(props)", " ", "{", "\n", "return", " ", "GenIcon", "(">>
      \o literal
      \o <<")", "(props)", ";", "\n", "}", ";", "\n">>

-----------------------------------------------------------------------------
(* getIconSvg: the regular expression and code.match *)

\* new RegExp(`module\\.exports\\.${iconName}\\s*=\\s*function\\s*${iconName}
\*   \\s*\\(props\\)\\s*{\\s*return\\s*GenIcon\\(`...) up to the capture group
regexPrefix(name) ==
    <<"module.exports.", name, "\\s*", "=", "\\s*", "function", "\\s*", name,
      "\\s*", "(props)", "\\s*", "{", "\\s*", "return", "\\s*", "GenIcon", "(">>

\* position after the prefix pat[k..] matched at s[i..], 0 when it does not match
RECURSIVE MatchPrefix(_, _, _, _)
MatchPrefix(s, i, pat, k) ==
    IF k > Len(pat) THEN i
    ELSE IF pat[k] = "\\s*" THEN MatchPrefix(s, SkipWs(s, i), pat, k + 1)
    ELSE IF i <= Len(s) /\ s[i] = pat[k] THEN MatchPrefix(s, i + 1, pat, k + 1)
    ELSE 0

\* ends of (\{.*?\})\) for a group starting at p: "}" at e, ")" at e + 1;
\* the flag "s" lets . match every character
GroupEnds(s, p) ==
    {e \in (p + 1)..(Len(s) - 1) : s[e] = "}" /\ s[e + 1] = ")"}

\* the lazy quantifier takes the nearest end
LazyEnd(ends) == CHOOSE e \in ends : \A f \in ends : e <= f

\* the match of the whole expression at position i: the captured group
MatchAt(s, i, name) ==
    LET p == MatchPrefix(s, i, regexPrefix(name), 1)
    IN  IF p = 0 \/ p > Len(s) \/ s[p] # "{" \/ GroupEnds(s, p) = {}
        THEN [matched |-> FALSE, group |-> <<>>]
        ELSE [matched |-> TRUE, group |-> SubSeq(s, p, LazyEnd(GroupEnds(s, p)))]

\* code.match(regex): the leftmost match, null (matched = FALSE) when none
Match(s, name) ==
    LET at == {i \in 1..Len(s) : MatchAt(s, i, name).matched}
    IN  IF at = {} THEN [matched |-> FALSE, group |-> <<>>]
        ELSE MatchAt(s, CHOOSE i \in at : \A j \in at : i <= j, name)

\* lines 207-219: match, then JSON.parse(match[1]) as TIconTree.  A value that
\* parses and that React cannot render (no string tag, a child that is no array)
\* makes lines 220-221 throw a TypeError.
extractIconTree(code, name) ==
    LET match == Match(code, name)
        parsed == JSONparse(match.group)
    IN  IF ~match.matched THEN [status |-> "NotFound", svg |-> None]
        ELSE IF ~parsed.ok THEN [status |-> "SyntaxError", svg |-> None]
        ELSE IF ~IsRenderable(parsed.val) THEN [status |-> "TypeError", svg |-> None]
        ELSE [status |-> "ok", svg |-> AsTIconTree(parsed.val)]

-----------------------------------------------------------------------------
(* tree2Element, React's createElement and renderToStaticMarkup *)

\* { key: i, ...node.attr }
RECURSIVE SpreadInto(_, _)
SpreadInto(obj, attr) ==
    IF attr = <<>> THEN obj
    ELSE SpreadInto(PutMember(obj, Head(attr).k, Head(attr).v), Tail(attr))

KeyAndAttr(i, attr) == SpreadInto(<<[k |-> <<"key">>, v |-> <<ToString(i)>>]>>, attr)

\* props React keeps off the element's props
RESERVED_PROPS == {<<"key">>, <<"ref">>, <<"__self">>, <<"__source">>}

PropOr(cfg, k, default) ==
    IF \E i \in 1..Len(cfg) : cfg[i].k = k
    THEN cfg[CHOOSE i \in 1..Len(cfg) : cfg[i].k = k].v
    ELSE default

\* createElement that leaves key among the props
createElementKeepsKey(type, cfg, children) ==
    [type |-> type,
     key |-> PropOr(cfg, <<"key">>, <<>>),
     ref |-> PropOr(cfg, <<"ref">>, <<>>),
     props |-> SelectSeq(cfg, LAMBDA m : m.k # <<"children">>),
     children |-> children]

\* createElement(type, config, children): key and ref leave the props, and the
\* third argument, which tree2Element always passes, becomes props.children
\* whatever config.children was
createElement(type, cfg, children) ==
    [type |-> type,
     key |-> PropOr(cfg, <<"key">>, <<>>),
     ref |-> PropOr(cfg, <<"ref">>, <<>>),
     props |-> SelectSeq(cfg, LAMBDA m : m.k \notin RESERVED_PROPS
                                         /\ m.k # <<"children">>),
     children |-> children]

RECURSIVE tree2Element(_)
\* tree2Element that does not descend into node.child
tree2ElementNoChildren(tree) ==
    [i \in 1..Len(tree) |->
        createElement(tree[i].tag, KeyAndAttr(i - 1, tree[i].attr), <<>>)]

tree2Element(tree) ==
    [i \in 1..Len(tree) |->
        createElement(tree[i].tag, KeyAndAttr(i - 1, tree[i].attr),
                      tree2Element(tree[i].child))]

\* React DOM's attribute name of a prop.  The trees of this model carry SVG
\* element names and string attributes; props React DOM treats specially
\* (style, dangerouslySetInnerHTML, event handlers) and void HTML elements are
\* not among them.
AttributeName(name) ==
    CASE name = <<"strokeWidth">> -> <<"stroke-width">>
      [] name = <<"fillRule">> -> <<"fill-rule">>
      [] name = <<"className">> -> <<"class">>
      [] OTHER -> name

\* escapeTextForBrowser, lexeme by lexeme
EscapeLexeme(c) ==
    CASE c = "&" -> "&amp;"
      [] c = "<" -> "&lt;"
      [] c = ">" -> "&gt;"
      [] c = "\"" -> "&quot;"
      [] c = "'" -> "&#x27;"
      [] OTHER -> c

escapeTextForBrowser(s) == [i \in 1..Len(s) |-> EscapeLexeme(s[i])]

pushAttribute(m) ==
    <<" ">> \o AttributeName(m.k) \o <<"=", "\"">> \o escapeTextForBrowser(m.v)
            \o <<"\"">>

RECURSIVE renderToStaticMarkup(_)
renderToStaticMarkup(elements) ==
    Concat([i \in 1..Len(elements) |->
        <<"<">> \o elements[i].type
          \o Concat([j \in 1..Len(elements[i].props) |->
                        pushAttribute(elements[i].props[j])])
          \o <<">">>
          \o renderToStaticMarkup(elements[i].children)
          \o <<"</">> \o elements[i].type \o <<">">>])

\* lines 220-221
renderTreeToMarkup(trees) == renderToStaticMarkup(tree2Element(trees))

-----------------------------------------------------------------------------
(* JavaScript values of react-icons.config.json *)

Undefined == [type |-> "undefined"]
Null == [type |-> "null"]
Bool(b) == [type |-> "boolean", b |-> b]
Num(n) == [type |-> "number", n |-> n]

typeof(v) == IF v.type = "null" THEN "object" ELSE v.type

\* ToBoolean: what `!v`, `v && ...` and `v ? a : b` test
Truthy(v) ==
    CASE v.type = "boolean" -> v.b
      [] v.type = "number" -> v.n # 0
      [] v.type = "string" -> v.s # <<>>
      [] OTHER -> FALSE

\* v ?? d
Nullish(v, d) == IF v.type \in {"undefined", "null"} THEN d ELSE v

\* values a field of the parsed file is drawn from
FieldValues ==
    {Undefined, Null, Bool(FALSE), Bool(TRUE), Num(0), JStr(<<>>), JStr(<<"yes">>)}

DirValues == {Undefined, JStr(<<>>), Num(1), JStr(<<"icons">>)}

ParsedFiles ==
    [dir : DirValues, native : FieldValues, typescript : FieldValues,
     cached : FieldValues]

NoConfig == [dir |-> Undefined, native |-> Undefined, typescript |-> Undefined,
             cached |-> Undefined, rootPath |-> <<>>]

NoFailure == [kind |-> "none", code |-> 0, message |-> <<>>]
Exit(code, message) == [kind |-> "exit", code |-> code, message |-> message]
Throw(error) == [kind |-> "throw", code |-> 1, message |-> <<error>>]

\* lines 49-82: the check that ends the process, <<>> when every check passes
configError(parsedFile) ==
    IF ~Truthy(parsedFile.dir) THEN <<"dir field is required">>
    ELSE IF typeof(parsedFile.dir) # "string" THEN <<"dir field must be a string">>
    ELSE IF Truthy(parsedFile.native) /\ typeof(parsedFile.native) # "boolean"
        THEN <<"native field must be a boolean">>
    ELSE IF Truthy(parsedFile.typescript) /\ typeof(parsedFile.typescript) # "boolean"
        THEN <<"typescript field must be a boolean">>
    ELSE IF Truthy(parsedFile.cached) /\ typeof(parsedFile.cached) # "boolean"
        THEN <<"cached field must be a boolean">>
    ELSE <<>>

\* lines 86-92
returnedConfig(parsedFile) ==
    [dir |-> parsedFile.dir,
     native |-> Nullish(parsedFile.native, Bool(FALSE)),
     typescript |-> Nullish(parsedFile.typescript, Bool(FALSE)),
     cached |-> Nullish(parsedFile.cached, Bool(FALSE)),
     rootPath |-> <<"/project">>]

-----------------------------------------------------------------------------
(* The file system *)

\* the archive `npm pack react-icons` writes for a published version
Versions == {"5.0.0", "5.1.0"}
Archive(version) == <<"react-icons", "-", version, ".tgz">>

\* entries of ROOT_DIR that are part of the installed package
PackageFiles == {<<"package.json">>, <<"dist">>}

\* fs.promises.readdir(ROOT_DIR)
readdir(dir, temp) == dir \cup (IF temp THEN {<<"temp">>} ELSE {})

\* rootFiles.includes("react-icons"): an entry that IS the string
ArrayIncludes(files, name) == name \in files

\* file.includes("react-icons"): an entry that CONTAINS the string
StringIncludes(file, part) == part \in Range(file)

-----------------------------------------------------------------------------
(* The unpacked archive: package/<projectId>/index.js and index.d.ts *)

Attr(k, v) == [k |-> <<k>>, v |-> v]

FaBeer ==
    Tree(<<"svg">>, <<Attr("viewBox", <<"0 0 640 512">>)>>,
         <<Tree(<<"path">>, <<Attr("d", <<"M640...">>)>>, <<>>)>>)

FaBus ==
    Tree(<<"svg">>, <<Attr("viewBox", <<"0 0 640 512">>)>>,
         <<Tree(<<"text">>, <<Attr("aria-label", <<"f(", "{", "}", ")">>)>>, <<>>)>>)

MdOk ==
    Tree(<<"svg">>, <<Attr("viewBox", <<"0 0 24 24">>), Attr("fill", <<"none">>)>>,
         <<Tree(<<"g">>, <<Attr("strokeWidth", <<"2">>)>>,
                <<Tree(<<"path">>, <<Attr("d", <<"M0 0h24">>)>>, <<>>),
                  Tree(<<"circle">>, <<Attr("r", <<"3">>)>>, <<>>)>>)>>)

Projects == {"fa", "md"}

\* package/<projectId>/index.js
indexJs(projectId) ==
    IF projectId = "fa"
    THEN Definition("FaBeer", Literal(FaBeer)) \o Definition("FaBus", Literal(FaBus))
    ELSE Definition("MdBad", Literal(FaBeer) \o <<"}">>)
           \o Definition("MdOk", Literal(MdOk))

\* the names package/<projectId>/index.d.ts declares; FaCar is declared and has
\* no definition in index.js
indexDts(projectId) ==
    IF projectId = "fa" THEN {"FaBeer", "FaBus", "FaCar"} ELSE {"MdBad", "MdOk"}

Icons == UNION {indexDts(p) : p \in Projects}

\* lines 200-219 for every project and every name its index.d.ts declares
iconTrees ==
    [p \in Projects |-> [i \in indexDts(p) |-> extractIconTree(indexJs(p), i)]]

-----------------------------------------------------------------------------
(* Bounds *)

\* passes of the do/while loop of main
MaxIter == 2

\* nodes of the root sequences the rendering harness renders
MaxNodes == 3

\* attributes of the single nodes the rendering harness renders
MaxAttrs == 2

\* nodes of the trees whose definitions the extraction harness reads
MaxLiteralNodes == 2

-----------------------------------------------------------------------------
(* main *)

Pending == [status |-> "pending", svg |-> None]
NotRendered == [done |-> FALSE, text |-> <<>>]
NoCode == [type |-> "none"]

FileNames == {<<i, e>> : i \in Icons, e \in {".tsx", ".jsx"}}

harnessIdle ==
    /\ src = <<>> /\ iconName = "" /\ extracted = Pending
    /\ roots = <<>> /\ markup = NotRendered

\* ROOT_DIR holds the installed package and what an earlier run left there:
\* nothing, or the archive it downloaded.  The working directory is ROOT_DIR or
\* the user's project, which may hold a file named like the archive.
Init ==
    /\ pc = "getConfigs"
    /\ config = NoConfig
    /\ rootDir \in {PackageFiles, PackageFiles \cup {Archive("5.0.0")}}
    /\ cwdIsRoot \in BOOLEAN
    /\ cwdDir \in {{}, {Archive("5.0.0")}, {Archive("5.1.0")}}
    /\ cwdIsRoot => cwdDir = {}
    /\ tempDir = FALSE
    /\ npmPackRuns = 0
    /\ reactIconsFileName = <<>>
    /\ selectedProject = ""
    /\ selectedIcon = ""
    /\ iteration = 0
    /\ svgHtml = <<>>
    /\ jsCode = NoCode
    /\ outDir = [f \in FileNames |-> NoCode]
    /\ failure = NoFailure
    /\ harnessIdle

unchangedDisk == UNCHANGED <<rootDir, cwdIsRoot, cwdDir, tempDir, outDir>>
unchangedHarness == UNCHANGED <<src, iconName, extracted, roots, markup>>
unchangedCall == UNCHANGED <<selectedProject, selectedIcon, iteration, svgHtml, jsCode>>

\* getConfigs, lines 40-44: findUp finds no react-icons.config.json
getConfigsNoFile ==
    /\ pc = "getConfigs"
    /\ pc' = "exited"
    /\ failure' = Exit(1, <<"Cannot find the react-icons.config.json file">>)
    /\ UNCHANGED <<config, npmPackRuns, reactIconsFileName>>
    /\ unchangedDisk /\ unchangedCall /\ unchangedHarness

\* getConfigs, lines 46-93, for a parsed file
getConfigs ==
    /\ pc = "getConfigs"
    /\ \E parsedFile \in ParsedFiles :
          IF configError(parsedFile) # <<>>
          THEN /\ pc' = "exited"
               /\ failure' = Exit(1, configError(parsedFile))
               /\ config' = config
          ELSE /\ pc' = "downloadReactIconsPackage"
               /\ failure' = failure
               /\ config' = returnedConfig(parsedFile)
    /\ UNCHANGED <<npmPackRuns, reactIconsFileName>>
    /\ unchangedDisk /\ unchangedCall /\ unchangedHarness

\* line 100: whether `npm pack` is run
needsDownload(rootFiles) == ~ArrayIncludes(rootFiles, <<"react-icons">>)

\* lines 105-107: rootFiles.find(...) returns the first match in readdir order,
\* which the file system decides
findCandidates(rootFiles) == {f \in rootFiles : StringIncludes(f, "react-icons")}

\* downloadReactIconsPackage, lines 95-126; `npm pack` fetches the version
\* published at the time
downloadReactIconsPackage ==
    /\ pc = "downloadReactIconsPackage"
    /\ \E version \in Versions :
          LET packed == needsDownload(readdir(rootDir, tempDir))
              after == IF packed THEN rootDir \cup {Archive(version)} ELSE rootDir
              found == findCandidates(readdir(after, tempDir))
          IN  /\ rootDir' = after
              /\ npmPackRuns' = IF packed THEN npmPackRuns + 1 ELSE npmPackRuns
              /\ IF found = {}
                 THEN /\ pc' = "exited"
                      /\ failure' = Exit(1, <<"Cannot find react-icons package">>)
                      /\ UNCHANGED <<reactIconsFileName, tempDir>>
                 ELSE /\ \E f \in found : reactIconsFileName' = f
                      /\ tempDir' = TRUE
                      /\ pc' = "getIconProjects"
                      /\ failure' = failure
    /\ UNCHANGED <<config, cwdIsRoot, cwdDir, outDir>>
    /\ unchangedCall /\ unchangedHarness

\* line 101: `npm pack` fails (no network, registry error); execAsync rejects
npmPackFails ==
    /\ pc = "downloadReactIconsPackage"
    /\ needsDownload(readdir(rootDir, tempDir))
    /\ pc' = "crashed"
    /\ failure' = Throw("npm pack failed")
    /\ UNCHANGED <<config, npmPackRuns, reactIconsFileName>>
    /\ unchangedDisk /\ unchangedCall /\ unchangedHarness

\* getIconProjects, lines 128-152
getIconProjects ==
    /\ pc = "getIconProjects"
    /\ pc' = "selectProject"
    /\ UNCHANGED <<config, npmPackRuns, reactIconsFileName, failure>>
    /\ unchangedDisk /\ unchangedCall /\ unchangedHarness

\* lines 274-289: the project prompt, then getProjectIconsFileDefinition
selectProject ==
    /\ pc = "selectProject"
    /\ \E p \in Projects : selectedProject' = p
    /\ iteration' = iteration + 1
    /\ pc' = "searchIcon"
    /\ UNCHANGED <<config, npmPackRuns, reactIconsFileName, failure,
                   selectedIcon, svgHtml, jsCode>>
    /\ unchangedDisk /\ unchangedHarness

\* lines 291-307: the search prompt offers the names index.d.ts declares (the
\* empty filter matches them all) and the user picks one
searchIcon ==
    /\ pc = "searchIcon"
    /\ \E i \in indexDts(selectedProject) : selectedIcon' = i
    /\ pc' = "getIconSvg"
    /\ UNCHANGED <<config, npmPackRuns, reactIconsFileName, failure,
                   selectedProject, iteration, svgHtml, jsCode>>
    /\ unchangedDisk /\ unchangedHarness

\* getIconSvg without the process.exit(1) of line 212: match[1] of null throws
getIconSvgNotFoundNoExit ==
    /\ pc = "getIconSvg"
    /\ iconTrees[selectedProject][selectedIcon].status = "NotFound"
    /\ pc' = "crashed"
    /\ failure' = Throw("TypeError")
    /\ UNCHANGED <<config, npmPackRuns, reactIconsFileName>>
    /\ unchangedDisk /\ unchangedCall /\ unchangedHarness

\* getIconSvg, lines 207-213: no match, process.exit(1)
getIconSvgNotFound ==
    /\ pc = "getIconSvg"
    /\ iconTrees[selectedProject][selectedIcon].status = "NotFound"
    /\ pc' = "exited"
    /\ failure' = Exit(1, <<"Cannot find icon", selectedIcon, "in project",
                            selectedProject>>)
    /\ UNCHANGED <<config, npmPackRuns, reactIconsFileName>>
    /\ unchangedDisk /\ unchangedCall /\ unchangedHarness

\* getIconSvg that catches the error of JSON.parse and reports it as not found
getIconSvgThrowsCaught ==
    /\ pc = "getIconSvg"
    /\ iconTrees[selectedProject][selectedIcon].status \in {"SyntaxError", "TypeError"}
    /\ pc' = "exited"
    /\ failure' = Exit(1, <<"Cannot find icon", selectedIcon, "in project",
                            selectedProject>>)
    /\ UNCHANGED <<config, npmPackRuns, reactIconsFileName>>
    /\ unchangedDisk /\ unchangedCall /\ unchangedHarness

\* getIconSvg, lines 219-221: JSON.parse or the rendering throws; nothing
\* catches it and the process ends
getIconSvgThrows ==
    /\ pc = "getIconSvg"
    /\ iconTrees[selectedProject][selectedIcon].status \in {"SyntaxError", "TypeError"}
    /\ pc' = "crashed"
    /\ failure' = Throw(iconTrees[selectedProject][selectedIcon].status)
    /\ UNCHANGED <<config, npmPackRuns, reactIconsFileName>>
    /\ unchangedDisk /\ unchangedCall /\ unchangedHarness

\* getIconSvg, lines 200-232: the tree is parsed and rendered, transform is called
getIconSvgRender ==
    /\ pc = "getIconSvg"
    /\ iconTrees[selectedProject][selectedIcon].status = "ok"
    /\ svgHtml' = renderTreeToMarkup(<<iconTrees[selectedProject][selectedIcon].svg>>)
    /\ pc' = "transform"
    /\ UNCHANGED <<config, npmPackRuns, reactIconsFileName, failure,
                   selectedProject, selectedIcon, iteration, jsCode>>
    /\ unchangedDisk /\ unchangedHarness

\* lines 223-230
plugins(cfg) ==
    <<"@svgr/plugin-svgo", "@svgr/plugin-jsx", "@svgr/plugin-prettier">>
      \o (IF Truthy(cfg.native) THEN <<"replaceSvgElementToSvgPlugin">> ELSE <<>>)

\* lines 232-246: the component source @svgr/core returns, kept as its inputs
transform(html, cfg, name) ==
    [type |-> "code", markup |-> html, plugins |-> plugins(cfg),
     native |-> cfg.native, typescript |-> cfg.typescript,
     namedExport |-> name, componentName |-> name]

\* line 256 without the test of config.typescript
fileNameAlwaysJsx(cfg, name) == <<name, ".jsx">>

\* line 256
fileName(cfg, name) == <<name, IF Truthy(cfg.typescript) THEN ".tsx" ELSE ".jsx">>

\* getIconSvg, lines 232-250: transform resolves, the output directory is made
transformDone ==
    /\ pc = "transform"
    /\ jsCode' = transform(svgHtml, config, selectedIcon)
    /\ pc' = "writeFile"
    /\ UNCHANGED <<config, npmPackRuns, reactIconsFileName, failure,
                   selectedProject, selectedIcon, iteration, svgHtml>>
    /\ unchangedDisk /\ unchangedHarness

\* getIconSvg, lines 252-261
writeFile ==
    /\ pc = "writeFile"
    /\ outDir' = [outDir EXCEPT ![fileName(config, selectedIcon)] = jsCode]
    /\ pc' = "confirm"
    /\ UNCHANGED <<config, npmPackRuns, reactIconsFileName, failure,
                   rootDir, cwdIsRoot, cwdDir, tempDir>>
    /\ unchangedCall /\ unchangedHarness

\* lines 311-319: the user answers yes, the loop runs again
confirmYes ==
    /\ pc = "confirm"
    /\ iteration < MaxIter
    /\ pc' = "selectProject"
    /\ svgHtml' = <<>>
    /\ jsCode' = NoCode
    /\ UNCHANGED <<config, npmPackRuns, reactIconsFileName, failure,
                   selectedProject, selectedIcon, iteration>>
    /\ unchangedDisk /\ unchangedHarness

\* lines 311-319: the user answers no, the loop ends
confirmNo ==
    /\ pc = "confirm"
    /\ pc' = "rmTemp"
    /\ UNCHANGED <<config, npmPackRuns, reactIconsFileName, failure>>
    /\ unchangedDisk /\ unchangedCall /\ unchangedHarness

\* lines 321-322
rmTemp ==
    /\ pc = "rmTemp"
    /\ tempDir' = FALSE
    /\ pc' = IF ~Truthy(config.cached) THEN "rmArchive" ELSE "done"
    /\ UNCHANGED <<config, npmPackRuns, reactIconsFileName, failure,
                   rootDir, cwdIsRoot, cwdDir, outDir>>
    /\ unchangedCall /\ unchangedHarness

\* line 323: fs.promises.rm(reactIconsFileName): the bare file name is resolved
\* against process.cwd()
rmArchive ==
    /\ pc = "rmArchive"
    /\ IF cwdIsRoot
       THEN /\ rootDir' = rootDir \ {reactIconsFileName}
            /\ pc' = "done"
            /\ UNCHANGED <<cwdDir, failure>>
       ELSE IF reactIconsFileName \in cwdDir
       THEN /\ cwdDir' = cwdDir \ {reactIconsFileName}
            /\ pc' = "done"
            /\ UNCHANGED <<rootDir, failure>>
       ELSE /\ pc' = "crashed"
            /\ failure' = Throw("ENOENT")
            /\ UNCHANGED <<rootDir, cwdDir>>
    /\ UNCHANGED <<config, npmPackRuns, reactIconsFileName, cwdIsRoot, tempDir, outDir>>
    /\ unchangedCall /\ unchangedHarness

Next ==
    \/ getConfigsNoFile
    \/ getConfigs
    \/ downloadReactIconsPackage
    \/ npmPackFails
    \/ getIconProjects
    \/ selectProject
    \/ searchIcon
    \/ getIconSvgNotFound
    \/ getIconSvgThrows
    \/ getIconSvgRender
    \/ transformDone
    \/ writeFile
    \/ confirmYes
    \/ confirmNo
    \/ rmTemp
    \/ rmArchive

Spec == Init /\ [][Next]_vars

-----------------------------------------------------------------------------
(* Inputs of the harnesses *)

Label(tag, attr) == [tag |-> tag, attr |-> attr]

\* the trees of exactly n nodes and the root sequences of exactly n nodes in
\* all, every node labelled from labels
RECURSIVE TreesN(_, _), ForestsN(_, _)
TreesN(labels, n) ==
    IF n = 0 THEN {}
    ELSE {Tree(l.tag, l.attr, f) : l \in labels, f \in ForestsN(labels, n - 1)}
ForestsN(labels, n) ==
    IF n = 0 THEN {<<>>}
    ELSE UNION {{<<t>> \o r : t \in TreesN(labels, k), r \in ForestsN(labels, n - k)} :
                  k \in 1..n}

\* attr objects of at most n pairs over pairs, no name twice
RECURSIVE AttrsUpTo(_, _)
AttrsUpTo(pairs, n) ==
    IF n = 0 THEN {<<>>}
    ELSE AttrsUpTo(pairs, n - 1) \cup
         {Append(a, q) : a \in {b \in AttrsUpTo(pairs, n - 1) : Len(b) = n - 1},
                         q \in pairs}

DistinctNames(a) == \A i, j \in 1..Len(a) : a[i].k = a[j].k => i = j

RenderLabels ==
    {Label(t, a) : t \in {<<"svg">>, <<"path">>},
                   a \in {<<>>, <<Attr("d", <<"M640...">>)>>, <<Attr("key", <<"k">>)>>}}

LeafPairs ==
    {Attr(k, v) : k \in {"d", "viewBox", "key", "ref", "children"},
                  v \in {<<"M640...">>, <<"a", "&", "b">>}}

LeafAttrs == {a \in AttrsUpTo(LeafPairs, MaxAttrs) : DistinctNames(a)}

\* root sequences of at most MaxNodes nodes, single nodes with up to MaxAttrs
\* attributes of any name, and the icons of the package
RenderInputs ==
    UNION {ForestsN(RenderLabels, n) : n \in 0..MaxNodes}
      \cup {<<Tree(t, a, <<>>)>> : t \in {<<"svg">>, <<"path">>}, a \in LeafAttrs}
      \cup {<<FaBeer>>, <<FaBus>>, <<MdOk>>}

LiteralLabels ==
    {Label(t, a) : t \in {<<"svg">>, <<"path">>},
                   a \in {<<>>,
                          <<Attr("d", <<"M640...">>)>>,
                          <<Attr("d", <<"a", "}", ")", "b">>)>>}}

LiteralTrees ==
    UNION {TreesN(LiteralLabels, n) : n \in 1..MaxLiteralNodes} \cup {FaBeer, MdOk}

WellFormed(name, tree) ==
    [name |-> name, wellFormed |-> TRUE, tree |-> tree, literal |-> Literal(tree)]

\* literals that are no JSON: a brace too many, a brace missing, an array left open
Broken(name, tree) ==
    {[name |-> name, wellFormed |-> FALSE, tree |-> tree, literal |-> l] :
        l \in {Literal(tree) \o <<"}">>,
               SubSeq(Literal(tree), 1, Len(Literal(tree)) - 1),
               SubSeq(Literal(tree), 1, Len(Literal(tree)) - 2) \o <<"}">>}}

Neighbours ==
    {WellFormed("FaBus", FaBeer), WellFormed("FaBus", FaBus)}
      \cup Broken("FaBus", FaBeer)

\* index.js files: the definition of FaBeer alone, after or before another one
ExtractInputs ==
    LET own == {WellFormed("FaBeer", t) : t \in LiteralTrees} \cup Broken("FaBeer", FaBeer)
    IN  {<<d>> : d \in own}
          \cup {<<n, d>> : n \in Neighbours, d \in own}
          \cup {<<d, n>> : n \in Neighbours, d \in own}

fileText(defs) == Concat([i \in 1..Len(defs) |-> Definition(defs[i].name, defs[i].literal)])

mainIdle ==
    /\ pc = "harness"
    /\ config = NoConfig
    /\ rootDir = PackageFiles
    /\ cwdIsRoot = FALSE
    /\ cwdDir = {}
    /\ tempDir = FALSE
    /\ npmPackRuns = 0
    /\ reactIconsFileName = <<>>
    /\ selectedProject = ""
    /\ selectedIcon = ""
    /\ iteration = 0
    /\ svgHtml = <<>>
    /\ jsCode = NoCode
    /\ outDir = [f \in FileNames |-> NoCode]
    /\ failure = NoFailure

unchangedMain ==
    UNCHANGED <<pc, config, rootDir, cwdIsRoot, cwdDir, tempDir, npmPackRuns,
                reactIconsFileName, selectedProject, selectedIcon, iteration,
                svgHtml, jsCode, outDir, failure>>

-----------------------------------------------------------------------------
(* Extraction harness: lines 202-219 of getIconSvg on a source text *)

InitExtract ==
    /\ mainIdle
    /\ src \in ExtractInputs
    /\ iconName \in {"FaBeer", "FaBus", "FaCar"}
    /\ extracted = Pending
    /\ roots = <<>>
    /\ markup = NotRendered

extract ==
    /\ extracted = Pending
    /\ extracted' = extractIconTree(fileText(src), iconName)
    /\ UNCHANGED <<src, iconName, roots, markup>>
    /\ unchangedMain

SpecExtract == InitExtract /\ [][extract]_vars

-----------------------------------------------------------------------------
(* Rendering harness: lines 220-221 of getIconSvg on a sequence of roots *)

InitRender ==
    /\ mainIdle
    /\ src = <<>>
    /\ iconName = ""
    /\ extracted = Pending
    /\ roots \in RenderInputs
    /\ markup = NotRendered

render ==
    /\ ~markup.done
    /\ markup' = [done |-> TRUE, text |-> renderTreeToMarkup(roots)]
    /\ UNCHANGED <<src, iconName, extracted, roots>>
    /\ unchangedMain

SpecRender == InitRender /\ [][render]_vars

-----------------------------------------------------------------------------
(* Reading markup back *)

UnescapeLexeme(c) ==
    CASE c = "&amp;" -> "&"
      [] c = "&lt;" -> "<"
      [] c = "&gt;" -> ">"
      [] c = "&quot;" -> "\""
      [] c = "&#x27;" -> "'"
      [] OTHER -> c

\* the attributes of the start tag whose attribute list begins at m[i]
RECURSIVE StartTagAttrs(_, _, _)
StartTagAttrs(m, i, acc) ==
    IF i + 4 > Len(m) \/ m[i] # " " THEN acc
    ELSE LET close == CHOOSE j \in (i + 4)..Len(m) :
                         /\ m[j] = "\""
                         /\ \A h \in (i + 4)..(j - 1) : m[h] # "\""
         IN  StartTagAttrs(m, close + 1,
                 Append(acc, [k |-> <<m[i + 1]>>,
                              v |-> [h \in 1..(close - i - 4) |->
                                        UnescapeLexeme(m[i + 3 + h])]]))

\* the start and end tags of a markup, in order
RECURSIVE TagEvents(_, _)
TagEvents(m, i) ==
    IF i > Len(m) THEN <<>>
    ELSE IF m[i] = "<" THEN <<[e |-> "start", tag |-> m[i + 1]]>> \o TagEvents(m, i + 2)
    ELSE IF m[i] = "</" THEN <<[e |-> "end", tag |-> m[i + 1]]>> \o TagEvents(m, i + 2)
    ELSE TagEvents(m, i + 1)

\* the nodes of a sequence of trees as they are entered and left, depth first
RECURSIVE NodeEvents(_)
NodeEvents(trees) ==
    Concat([i \in 1..Len(trees) |->
        <<[e |-> "start", tag |-> trees[i].tag[1]]>>
          \o NodeEvents(trees[i].child)
          \o <<[e |-> "end", tag |-> trees[i].tag[1]]>>])

RECURSIVE NodeCount(_)
NodeCount(trees) ==
    IF trees = <<>> THEN 0
    ELSE 1 + NodeCount(Head(trees).child) + NodeCount(Tail(trees))

-----------------------------------------------------------------------------
(* Claims *)

\* C1: for every source text holding a well-formed definition of the requested
\* icon, match followed by JSON.parse yields the tree of the whole embedded
\* literal, whatever its depth, its attribute values and the definitions around it.
C1_ExtractYieldsTheLiteral ==
    extracted # Pending =>
        \A i \in 1..Len(src) :
            (src[i].name = iconName /\ src[i].wellFormed)
                => extracted = [status |-> "ok", svg |-> src[i].tree]

\* the match and the parse of the captured group, for every project and icon
matched ==
    [p \in Projects |-> [i \in indexDts(p) |-> Match(indexJs(p), i).matched]]
groupParses ==
    [p \in Projects |-> [i \in indexDts(p) |-> JSONparse(Match(indexJs(p), i).group).ok]]

\* C2: when the source text holds no definition matching the icon name,
\* getIconSvg fails with a NotFound message naming the icon and the project and
\* the process halts: nothing is rendered, transform is not called, no file of
\* the output directory is created or modified.
C2_NotFoundHalts ==
    [][/\ (pc = "getIconSvg" /\ ~matched[selectedProject][selectedIcon]) =>
            /\ pc' = "exited"
            /\ failure' = Exit(1, <<"Cannot find icon", selectedIcon, "in project",
                                    selectedProject>>)
            /\ svgHtml' = <<>> /\ jsCode' = NoCode /\ outDir' = outDir
       /\ pc = "exited" => UNCHANGED <<pc, svgHtml, jsCode, outDir>>]_vars

C2_Witness ==
    /\ pc = "exited" /\ selectedIcon = "FaCar" /\ iteration = 2
    /\ \E f \in FileNames : outDir[f] # NoCode

\* C3: when a definition is matched and its captured literal is no JSON, the
\* extraction fails with an error of its own, not the NotFound exit, and
\* produces nothing: no markup is rendered and no file is written for the icon.
C3_MalformedThrows ==
    [][/\ (/\ pc = "getIconSvg"
           /\ matched[selectedProject][selectedIcon]
           /\ ~groupParses[selectedProject][selectedIcon]) =>
            /\ pc' = "crashed"
            /\ failure' = Throw("SyntaxError")
            /\ svgHtml' = <<>> /\ jsCode' = NoCode /\ outDir' = outDir
       /\ pc = "crashed" => UNCHANGED <<pc, svgHtml, jsCode, outDir>>]_vars

C3_Witness ==
    /\ pc = "crashed" /\ selectedIcon = "MdBad" /\ failure = Throw("SyntaxError")
    /\ outDir[<<"MdBad", ".jsx">>] = NoCode /\ outDir[<<"MdBad", ".tsx">>] = NoCode

\* C4: a tree with no children renders to one element of its tag that carries
\* exactly the attributes of its attr, each pair once, in order, whatever the
\* attribute names (key, ref and children included).
C4_LeafCarriesItsAttrs ==
    (markup.done /\ Len(roots) = 1 /\ roots[1].child = <<>>) =>
        /\ TagEvents(markup.text, 1) = NodeEvents(roots)
        /\ StartTagAttrs(markup.text, 3, <<>>) = roots[1].attr

\* C5: the markup of [a, b] is the markup of [a] followed by the markup of [b];
\* the index tree2Element gives a node never shows in the text.
C5_RootsConcatenate ==
    (markup.done /\ Len(roots) = 2) =>
        markup.text = renderTreeToMarkup(<<roots[1]>>) \o renderTreeToMarkup(<<roots[2]>>)

C5_Witness ==
    /\ markup.done /\ Len(roots) = 2
    /\ roots[1].attr = <<Attr("key", <<"k">>)>>
    /\ roots[2].child # <<>> /\ roots[2].attr # <<>>

FaBeerMarkup ==
    <<"<", "svg", " ", "viewBox", "=", "\"", "0 0 640 512", "\"", ">",
      "<", "path", " ", "d", "=", "\"", "M640...", "\"", ">", "</", "path", ">",
      "</", "svg", ">">>

\* C6: rendering gives one element per node, the children of a node nested in
\* its element in the order of its child sequence; the FaBeer tree renders to
\* <svg viewBox="0 0 640 512"><path d="M640..."></path></svg>.
C6_OneElementPerNode ==
    markup.done =>
        /\ TagEvents(markup.text, 1) = NodeEvents(roots)
        /\ Len(SelectSeq(markup.text, LAMBDA c : c = "<")) = NodeCount(roots)
        /\ roots = <<FaBeer>> => markup.text = FaBeerMarkup

C6_Witness == markup.done /\ roots = <<MdOk>>

\* C7: a call of getIconSvg that finds and parses the definition writes exactly
\* one file, <iconName>.tsx when config.typescript is true and <iconName>.jsx
\* otherwise, after transform has completed, and changes no other file.
C7_WritesOneFile ==
    [][/\ pc = "transform" => (pc' = "writeFile" /\ outDir' = outDir)
       /\ pc = "writeFile" =>
            /\ jsCode = transform(svgHtml, config, selectedIcon)
            /\ pc' = "confirm"
            /\ outDir' = [outDir EXCEPT
                  ![<<selectedIcon,
                      IF config.typescript = Bool(TRUE) THEN ".tsx" ELSE ".jsx">>]
                      = jsCode]
       /\ pc # "writeFile" => outDir' = outDir]_vars

C7_Witness ==
    /\ pc = "confirm" /\ iteration = 2
    /\ config.typescript = Bool(TRUE)
    /\ outDir[<<"FaBeer", ".tsx">>] # NoCode
    /\ outDir[<<"MdOk", ".tsx">>] = jsCode
    /\ jsCode # NoCode

\* C8: once the user answers no the temp directory is removed, and then the
\* archive downloadReactIconsPackage placed in ROOT_DIR is removed if and only
\* if config.cached is false.
C8_ArchiveRemovedIffNotCached ==
    (pc = "done" \/ (pc = "crashed" /\ failure = Throw("ENOENT"))) =>
        /\ ~tempDir
        /\ (reactIconsFileName \notin rootDir) <=> (config.cached = Bool(FALSE))

\* C9: `npm pack` runs only when ROOT_DIR holds no react-icons archive of an
\* earlier run; an archive left there is unpacked without a new download.
C9_NoDownloadWhenArchiveLeft ==
    [][(/\ pc = "downloadReactIconsPackage"
        /\ \E f \in rootDir : StringIncludes(f, "react-icons")) =>
            /\ npmPackRuns' = npmPackRuns
            /\ pc' = "getIconProjects"
            /\ reactIconsFileName' \in rootDir]_vars

\* C10: a config getConfigs returns has a non-empty string dir and boolean
\* native, typescript and cached.
C10_ConfigFieldsAreBooleans ==
    config # NoConfig =>
        /\ config.dir.type = "string" /\ config.dir.s # <<>>
        /\ config.native.type = "boolean"
        /\ config.typescript.type = "boolean"
        /\ config.cached.type = "boolean"

=============================================================================
